---- MODULE Spec2Model ----
(***************************************************************************)
(* zmqtulip.core.Socket: a zmq socket driven by a tulip/asyncio event      *)
(* loop.  The model follows src/zmqtulip/core.py handler by handler: every *)
(* action is one call made on the loop thread (recv, send, a readiness     *)
(* callback, a cancellation by the caller, close), run to completion.      *)
(* The transport (zmq.Socket.recv / zmq.Socket.send) is the environment:   *)
(* each underlying attempt answers with one of Outcomes.                   *)
(***************************************************************************)
EXTENDS Integers, Sequences, FiniteSets, TLC

\* ------------------------------------------------------------------ bounds
MaxSend == 3      \* send calls in one behaviour
MaxRecv == 2      \* recv calls in one behaviour
MaxWire == 5      \* underlying send attempts in one behaviour
MaxTries == 4     \* underlying receive attempts of one recv call
MaxCalls == 2     \* recv and send calls together when both directions run
MaxLiveSend == 2  \* send calls in one behaviour of the fair specification

\* --------------------------------------------------------- program constants
NOBLOCK == 1      \* zmq.NOBLOCK
SNDMORE == 2      \* another flag bit a caller may pass (zmq.SNDMORE)

Flags == 0 .. (NOBLOCK + SNDMORE)

\* flags & bit
HasFlag(flags, bit) == (flags \div bit) % 2 = 1

\* flags | bit
OrFlag(flags, bit) == IF HasFlag(flags, bit) THEN flags ELSE flags + bit

VARIABLES
    buffer,     \* self._buffer: deque of (fut, data, flags) entries
    sfut,       \* state of the future created by the i-th send call
    sret,       \* what the i-th send call gave back to its caller
    nsend,      \* number of send calls made
    writer,     \* the loop holds a writer for _sock_fd (add_writer/remove_writer)
    wire,       \* payloads handed to zmq.Socket.send so far, in order
    rfut,       \* state of the future created by the i-th recv call
    rargs,      \* flags bound to the reader callback of the i-th recv call
    nrecv,      \* number of recv calls made
    reader,     \* recv call whose _recv is the loop's reader for _sock_fd, 0 if none
    rtries,     \* underlying receive attempts of the i-th recv call
    rblocks,    \* EAGAIN answers to the i-th recv call
    rregs,      \* add_reader calls made for the i-th recv call
    closed,     \* close() was called
    step        \* what the last handler did

vars == <<buffer, sfut, sret, nsend, writer, wire, rfut, rargs, nrecv, reader,
          rtries, rblocks, rregs, closed, step>>

sendVars == <<buffer, sfut, sret, nsend, writer, wire>>
recvVars == <<rfut, rargs, nrecv, reader, rtries, rblocks, rregs>>

SendIds == 1 .. MaxSend
RecvIds == 1 .. MaxRecv

\* ------------------------------------------------------------- environment
\* Answers of one underlying zmq call: a value, ZMQError(EAGAIN), another
\* ZMQError, an exception that is no ZMQError.  A closed socket answers every
\* call with ZMQError(ENOTSOCK).
Outcomes(isClosed) == IF isClosed THEN {"err"} ELSE {"ok", "eagain", "err", "exc"}

\* ------------------------------------------------------------------ futures
\* Future.set_result / Future.set_exception: settle a pending future; on a
\* future that is already done (cancelled included) they raise
\* InvalidStateError and leave it as it is.
CanSettle(st) == st = "pending"

SetResult(futs, f) == IF CanSettle(futs[f]) THEN [futs EXCEPT ![f] = "result"] ELSE futs

SetException(futs, f) == IF CanSettle(futs[f]) THEN [futs EXCEPT ![f] = "exception"] ELSE futs

\* a _recv that never looks at the cancellation of its future
NeverCancelled(futs, f) == FALSE

\* a _recv that takes every future for a cancelled one
AlwaysCancelled(futs, f) == TRUE

\* Future.cancelled()
Cancelled(futs, f) == futs[f] = "cancelled"

\* one underlying call, as the transport saw it
Attempt(id, flags, out) == [id |-> id, flags |-> flags, out |-> out]

\* the record kept of the last handler
Step(op, id, flags, data, atts, ret, adds, rems, dbl, ise) ==
    [op |-> op, id |-> id, flags |-> flags, data |-> data, atts |-> atts,
     ret |-> ret, adds |-> adds, rems |-> rems, dbl |-> dbl, ise |-> ise]

Init ==
    /\ buffer = <<>>
    /\ sfut = [i \in SendIds |-> "none"]
    /\ sret = [i \in SendIds |-> "nocall"]
    /\ nsend = 0
    /\ writer = FALSE
    /\ wire = <<>>
    /\ rfut = [i \in RecvIds |-> "none"]
    /\ rargs = [i \in RecvIds |-> 0]
    /\ nrecv = 0
    /\ reader = 0
    /\ rtries = [i \in RecvIds |-> 0]
    /\ rblocks = [i \in RecvIds |-> 0]
    /\ rregs = [i \in RecvIds |-> 0]
    /\ closed = FALSE
    /\ step = Step("init", 0, 0, "", <<>>, "", 0, 0, FALSE, FALSE)

\* ------------------------------------------------------------ receive path
\* The receive side of the adapter while one handler runs: the persistent
\* fields plus what the handler did so far (atts, adds, rems, dbl, ise).
RecvState ==
    [rfut |-> rfut, reader |-> reader, rtries |-> rtries, rblocks |-> rblocks,
     rregs |-> rregs, atts |-> <<>>, adds |-> 0, rems |-> 0, dbl |-> FALSE,
     ise |-> FALSE]

\* self._loop.add_reader(self._sock_fd, self._recv, fut, True, *args): the loop
\* keeps one reader per descriptor, a new one replaces the old one.
AddReader(r, i) ==
    [r EXCEPT !.reader = i, !.rregs[i] = @ + 1, !.adds = @ + 1,
              !.dbl = @ \/ r.reader # 0]

\* a _recv that leaves its reader with the loop when it fires
RemoveReaderForgotten(r) == r

\* self._loop.remove_reader(self._sock_fd)
RemoveReader(r) == [r EXCEPT !.reader = 0, !.rems = @ + 1]

\* one call of zmq.Socket.recv for recv call i, answered with o
RecvAttempt(r, i, flags, o) ==
    [r EXCEPT !.rtries[i] = @ + 1,
              !.rblocks[i] = IF o = "eagain" THEN @ + 1 ELSE @,
              !.atts = Append(@, Attempt(i, flags, o))]

\* fut.set_result(data) / fut.set_exception(exc) on the future of recv call i
RecvSetResult(r, i) ==
    [r EXCEPT !.rfut = SetResult(@, i), !.ise = @ \/ ~CanSettle(r.rfut[i])]

RecvSetException(r, i) ==
    [r EXCEPT !.rfut = SetException(@, i), !.ise = @ \/ ~CanSettle(r.rfut[i])]

\* a recv that passes the caller's flags on as they are
RecvFlagsKept(flags) == flags

\* flags |= zmq.NOBLOCK in recv
RecvFlags(flags) == OrFlag(flags, NOBLOCK)

\* a _recv that fails its future on every ZMQError, EAGAIN included
RecvWithoutErrnoCheck(r, i, registered, flags, o) ==
    LET r1 == IF registered THEN RemoveReader(r) ELSE r
        r2 == RecvAttempt(r1, i, flags, o)
    IN  IF Cancelled(r1.rfut, i) THEN r1
        ELSE IF o = "ok" THEN RecvSetResult(r2, i) ELSE RecvSetException(r2, i)

\* a _recv that treats every ZMQError as a would-block and registers again
RecvRetryingErrors(r, i, registered, flags, o) ==
    LET r1 == IF registered THEN RemoveReader(r) ELSE r
        r2 == RecvAttempt(r1, i, flags, o)
    IN  IF Cancelled(r1.rfut, i) THEN r1
        ELSE CASE o = "ok" -> RecvSetResult(r2, i)
               [] o = "eagain" -> AddReader(r2, i)
               [] o = "err" -> AddReader(r2, i)
               [] o = "exc" -> RecvSetException(r2, i)

\* a _recv that registers the reader once and not again after a spurious firing
RecvNoRearm(r, i, registered, flags, o) ==
    LET r1 == IF registered THEN RemoveReader(r) ELSE r
        r2 == RecvAttempt(r1, i, flags, o)
    IN  IF Cancelled(r1.rfut, i) THEN r1
        ELSE CASE o = "ok" -> RecvSetResult(r2, i)
               [] o = "eagain" -> IF registered THEN r2 ELSE AddReader(r2, i)
               [] o = "err" -> RecvSetException(r2, i)
               [] o = "exc" -> RecvSetException(r2, i)

\* a _recv that never takes its reader back from the loop
RecvNoDeregister(r, i, registered, flags, o) ==
    LET r2 == RecvAttempt(r, i, flags, o)
    IN  IF Cancelled(r.rfut, i) THEN r
        ELSE CASE o = "ok" -> RecvSetResult(r2, i)
               [] o = "eagain" -> IF registered THEN r2 ELSE AddReader(r2, i)
               [] o = "err" -> RecvSetException(r2, i)
               [] o = "exc" -> RecvSetException(r2, i)

\* Socket._recv(fut, registered, *args), the transport answering o
_recv(r, i, registered, flags, o) ==
    LET r1 == IF registered THEN RemoveReader(r) ELSE r
        r2 == RecvAttempt(r1, i, flags, o)
    IN  IF Cancelled(r1.rfut, i) THEN r1
        ELSE CASE o = "ok" -> RecvSetResult(r2, i)
               [] o = "eagain" -> AddReader(r2, i)
               [] o = "err" -> RecvSetException(r2, i)
               [] o = "exc" -> RecvSetException(r2, i)

\* what `return (yield from fut)` gives the caller of recv
YieldFrom(st) ==
    CASE st = "result" -> "value"
      [] st = "exception" -> "raise"
      [] OTHER -> "suspend"

\* a recv that registers the reader itself after the first EAGAIN instead of
\* calling _recv(fut, False, ...)
RecvCallDeferring(r, i, flags, o1, o2) ==
    IF HasFlag(flags, NOBLOCK)
    THEN [st |-> RecvAttempt(r, i, flags, o1), args |-> flags,
          ret |-> IF o1 = "ok" THEN "value" ELSE "raise"]
    ELSE LET fl == RecvFlags(flags)
             r1 == RecvAttempt(r, i, fl, o1)
             r3 == AddReader([r1 EXCEPT !.rfut[i] = "pending"], i)
         IN  CASE o1 = "ok" -> [st |-> r1, args |-> fl, ret |-> "value"]
               [] o1 = "eagain" -> [st |-> r3, args |-> fl, ret |-> "suspend"]
               [] OTHER -> [st |-> r1, args |-> fl, ret |-> "raise"]

\* a recv that creates its future first and makes every attempt in _recv
RecvCallViaFuture(r, i, flags, o1, o2) ==
    IF HasFlag(flags, NOBLOCK)
    THEN [st |-> RecvAttempt(r, i, flags, o1), args |-> flags,
          ret |-> IF o1 = "ok" THEN "value" ELSE "raise"]
    ELSE LET fl == RecvFlags(flags)
             r3 == _recv([r EXCEPT !.rfut[i] = "pending"], i, FALSE, fl, o1)
         IN  [st |-> r3, args |-> fl, ret |-> YieldFrom(r3.rfut[i])]

\* a recv without the shortcut for callers that pass NOBLOCK
RecvCallNoShortcut(r, i, flags, o1, o2) ==
    LET fl == RecvFlags(flags)
        r1 == RecvAttempt(r, i, fl, o1)
        r3 == _recv([r1 EXCEPT !.rfut[i] = "pending"], i, FALSE, fl, o2)
    IN  CASE o1 = "ok" -> [st |-> r1, args |-> fl, ret |-> "value"]
          [] o1 = "eagain" -> [st |-> r3, args |-> fl, ret |-> YieldFrom(r3.rfut[i])]
          [] OTHER -> [st |-> r1, args |-> fl, ret |-> "raise"]

\* Socket.recv(flags) up to its return or its suspension, o1 and o2 the
\* answers of the transport to the attempts it makes
RecvCall(r, i, flags, o1, o2) ==
    IF HasFlag(flags, NOBLOCK)
    THEN [st |-> RecvAttempt(r, i, flags, o1), args |-> flags,
          ret |-> IF o1 = "ok" THEN "value" ELSE "raise"]
    ELSE LET fl == RecvFlags(flags)
             r1 == RecvAttempt(r, i, fl, o1)
             r2 == [r1 EXCEPT !.rfut[i] = "pending"]
             r3 == _recv(r2, i, FALSE, fl, o2)
         IN  CASE o1 = "ok" -> [st |-> r1, args |-> fl, ret |-> "value"]
               [] o1 = "eagain" -> [st |-> r3, args |-> fl, ret |-> YieldFrom(r3.rfut[i])]
               [] OTHER -> [st |-> r1, args |-> fl, ret |-> "raise"]

\* the writer the loop holds for _sock_fd after a handler of the receive side:
\* add_reader and remove_reader leave the writer of the descriptor alone
LoopWriter(w, r) == w

\* the receive side after a handler
RecvCommit(r) ==
    /\ rfut' = r.rfut
    /\ reader' = r.reader
    /\ rtries' = r.rtries
    /\ rblocks' = r.rblocks
    /\ rregs' = r.rregs
    /\ writer' = LoopWriter(writer, r)

\* a caller runs the recv coroutine
recv(flags, o1, o2) ==
    /\ nrecv < MaxRecv
    /\ LET i == nrecv + 1
           c == RecvCall(RecvState, i, flags, o1, o2)
       IN  /\ RecvCommit(c.st)
           /\ rargs' = [rargs EXCEPT ![i] = c.args]
           /\ nrecv' = i
           /\ step' = Step("recv", i, flags, "", c.st.atts, c.ret, c.st.adds,
                           c.st.rems, c.st.dbl, c.st.ise)
    /\ UNCHANGED <<buffer, sfut, sret, nsend, wire, closed>>

\* the loop fires the reader registered for _sock_fd
RecvReady(o) ==
    /\ reader # 0
    /\ o = "eagain" => rtries[reader] < MaxTries
    /\ LET i == reader
           r == _recv(RecvState, i, TRUE, rargs[i], o)
       IN  /\ RecvCommit(r)
           /\ step' = Step("recv_ready", i, rargs[i], "", r.atts, "", r.adds,
                           r.rems, r.dbl, r.ise)
    /\ UNCHANGED <<buffer, sfut, sret, nsend, wire, rargs, nrecv, closed>>

\* the caller cancels the future its recv is suspended on
CancelRecv(i) ==
    /\ rfut[i] = "pending"
    /\ rfut' = [rfut EXCEPT ![i] = "cancelled"]
    /\ step' = Step("cancel_recv", i, 0, "", <<>>, "", 0, 0, FALSE, FALSE)
    /\ UNCHANGED <<sendVars, rargs, nrecv, reader, rtries, rblocks, rregs, closed>>

\* --------------------------------------------------------------- send path
\* The send side of the adapter while one handler runs.
SendState ==
    [buffer |-> buffer, sfut |-> sfut, writer |-> writer, wire |-> wire,
     atts |-> <<>>, adds |-> 0, rems |-> 0, dbl |-> FALSE, ise |-> FALSE]

\* an entry of self._buffer: (fut, data, flags, copy, track); the payload of
\* the i-th send call is named i
Entry(fut, data, flags) == [fut |-> fut, data |-> data, flags |-> flags]

\* a send that queues its entry without registering the writer
AddWriterForgotten(s) == s

\* self._loop.add_writer(self._sock_fd, self._send_ready)
AddWriter(s) == [s EXCEPT !.writer = TRUE, !.adds = @ + 1, !.dbl = @ \/ s.writer]

\* self._loop.remove_writer(self._sock_fd)
RemoveWriter(s) == [s EXCEPT !.writer = FALSE, !.rems = @ + 1]

\* one call of zmq.Socket.send(data, flags, copy, track), answered with o
SendAttempt(s, data, flags, o) ==
    [s EXCEPT !.wire = Append(@, data), !.atts = Append(@, Attempt(data, flags, o))]

\* fut.set_result(res) / fut.set_exception(exc) on the future of send call i
SendSetResult(s, i) ==
    [s EXCEPT !.sfut = SetResult(@, i), !.ise = @ \/ ~CanSettle(s.sfut[i])]

SendSetException(s, i) ==
    [s EXCEPT !.sfut = SetException(@, i), !.ise = @ \/ ~CanSettle(s.sfut[i])]

\* flags |= zmq.NOBLOCK in send
SendFlags(flags) == OrFlag(flags, NOBLOCK)

\* the flags kept in the entry appended by send: the local variable flags,
\* which carries NOBLOCK only when the call went through the immediate attempt
EntryFlags(flags, attempted) == IF attempted THEN SendFlags(flags) ELSE flags

\* a send that puts its entry in front of the queued ones
EnqueueAtHead(q, entry) == <<entry>> \o q

\* self._buffer.append(entry)
Enqueue(q, entry) == Append(q, entry)

\* a drain that puts a blocked entry back at the tail
RequeueTail(q, entry) == Append(q, entry)

\* a drain that forgets to put a blocked entry back
RequeueDropped(q, entry) == q

\* a drain that puts the entry back twice after a would-block
RequeueTwice(q, entry) == <<entry, entry>> \o q

\* self._buffer.appendleft(entry)
Requeue(q, entry) == <<entry>> \o q

\* a send without the early return for an empty payload
SendCallNoEmptyCheck(s, i, data, flags, o) ==
    LET s0 == [s EXCEPT !.sfut[i] = "pending"]
        fl == SendFlags(flags)
        nb == SendAttempt(s0, i, flags, o)
        s1 == SendAttempt(s0, i, fl, o)
        s2 == AddWriter(s1)
    IN  IF s0.buffer = <<>>
        THEN IF HasFlag(flags, NOBLOCK)
             THEN IF o = "ok"
                  THEN [st |-> SendSetResult(nb, i), ret |-> "fut"]
                  ELSE [st |-> nb, ret |-> "raise"]
             ELSE CASE o = "ok" -> [st |-> SendSetResult(s1, i), ret |-> "fut"]
                    [] o = "err" -> [st |-> SendSetException(s1, i), ret |-> "None"]
                    [] o = "exc" -> [st |-> s1, ret |-> "raise"]
                    [] o = "eagain" ->
                        [st |-> [s2 EXCEPT !.buffer = Enqueue(@, Entry(i, i, EntryFlags(flags, TRUE)))],
                         ret |-> "fut"]
        ELSE [st |-> [s0 EXCEPT !.buffer = Enqueue(@, Entry(i, i, EntryFlags(flags, FALSE)))],
              ret |-> "fut"]

\* a send that queues every payload and leaves the attempt to the drain
SendCallAlwaysQueue(s, i, data, flags, o) ==
    LET s0 == [s EXCEPT !.sfut[i] = "pending"]
    IN  IF data = "empty" THEN [st |-> s, ret |-> "None"]
        ELSE [st |-> [AddWriter(s0) EXCEPT
                         !.buffer = Enqueue(@, Entry(i, i, EntryFlags(flags, FALSE)))],
              ret |-> "fut"]

\* a send that queues after a would-block whether or not NOBLOCK was asked
SendCallNoShortcut(s, i, data, flags, o) ==
    LET s0 == [s EXCEPT !.sfut[i] = "pending"]
        s1 == SendAttempt(s0, i, SendFlags(flags), o)
    IN  IF data = "empty" THEN [st |-> s, ret |-> "None"]
        ELSE IF s0.buffer = <<>>
        THEN CASE o = "ok" -> [st |-> SendSetResult(s1, i), ret |-> "fut"]
               [] o = "err" -> [st |-> SendSetException(s1, i), ret |-> "None"]
               [] o = "exc" -> [st |-> s1, ret |-> "raise"]
               [] o = "eagain" ->
                   [st |-> [AddWriter(s1) EXCEPT
                               !.buffer = Enqueue(@, Entry(i, i, EntryFlags(flags, TRUE)))],
                    ret |-> "fut"]
        ELSE [st |-> [s0 EXCEPT !.buffer = Enqueue(@, Entry(i, i, EntryFlags(flags, FALSE)))],
              ret |-> "fut"]

\* Socket.send(data, flags) for the i-th call, o the answer of the transport
\* to the immediate attempt; ret is what the caller gets
SendCall(s, i, data, flags, o) ==
    LET s0 == [s EXCEPT !.sfut[i] = "pending"]
        fl == SendFlags(flags)
        nb == SendAttempt(s0, i, flags, o)
        s1 == SendAttempt(s0, i, fl, o)
        s2 == AddWriter(s1)
    IN  IF data = "empty" THEN [st |-> s, ret |-> "None"]
        ELSE IF s0.buffer = <<>>
        THEN IF HasFlag(flags, NOBLOCK)
             THEN IF o = "ok"
                  THEN [st |-> SendSetResult(nb, i), ret |-> "fut"]
                  ELSE [st |-> nb, ret |-> "raise"]
             ELSE CASE o = "ok" -> [st |-> SendSetResult(s1, i), ret |-> "fut"]
                    [] o = "err" -> [st |-> SendSetException(s1, i), ret |-> "None"]
                    [] o = "exc" -> [st |-> s1, ret |-> "raise"]
                    [] o = "eagain" ->
                        [st |-> [s2 EXCEPT !.buffer = Enqueue(@, Entry(i, i, EntryFlags(flags, TRUE)))],
                         ret |-> "fut"]
        ELSE [st |-> [s0 EXCEPT !.buffer = Enqueue(@, Entry(i, i, EntryFlags(flags, FALSE)))],
              ret |-> "fut"]

\* a drain that leaves its loop with break instead of return when an entry
\* fails, and so goes on to remove the writer
RECURSIVE SendReadyBreaking(_, _)
SendReadyBreaking(s, os) ==
    IF s.buffer = <<>> THEN RemoveWriter(s)
    ELSE LET entry == Head(s.buffer)
             o == os[Len(s.atts) + 1]
             s1 == SendAttempt([s EXCEPT !.buffer = Tail(@)], entry.data, entry.flags, o)
         IN  CASE o = "ok" ->
                    IF CanSettle(s1.sfut[entry.fut])
                    THEN SendReadyBreaking(SendSetResult(s1, entry.fut), os)
                    ELSE SendSetResult(s1, entry.fut)
               [] o = "eagain" -> [s1 EXCEPT !.buffer = Requeue(@, entry)]
               [] o = "err" -> RemoveWriter(SendSetException(s1, entry.fut))
               [] o = "exc" -> RemoveWriter(SendSetException(s1, entry.fut))

\* Socket._send_ready(), os[k] the answer of the transport to the k-th
\* attempt of this firing
RECURSIVE _send_ready(_, _)
_send_ready(s, os) ==
    IF s.buffer = <<>> THEN RemoveWriter(s)
    ELSE LET entry == Head(s.buffer)
             o == os[Len(s.atts) + 1]
             s1 == SendAttempt([s EXCEPT !.buffer = Tail(@)], entry.data, entry.flags, o)
         IN  CASE o = "ok" ->
                    IF CanSettle(s1.sfut[entry.fut])
                    THEN _send_ready(SendSetResult(s1, entry.fut), os)
                    ELSE SendSetResult(s1, entry.fut)
               [] o = "eagain" -> [s1 EXCEPT !.buffer = Requeue(@, entry)]
               [] o = "err" -> SendSetException(s1, entry.fut)
               [] o = "exc" -> SendSetException(s1, entry.fut)

\* a loop that keeps one callback for a descriptor, so that a writer
\* registered or removed takes the reader away
ReaderDropped(rd, s) == IF s.adds + s.rems > 0 THEN 0 ELSE rd

\* the reader the loop holds for _sock_fd after a handler of the send side:
\* add_writer and remove_writer leave the reader of the descriptor alone
LoopReader(rd, s) == rd

\* the send side after a handler
SendCommit(s) ==
    /\ buffer' = s.buffer
    /\ sfut' = s.sfut
    /\ writer' = s.writer
    /\ wire' = s.wire
    /\ reader' = LoopReader(reader, s)

\* a caller calls send
send(data, flags, o) ==
    /\ nsend < MaxSend
    /\ Len(wire) < MaxWire
    /\ LET i == nsend + 1
           c == SendCall(SendState, i, data, flags, o)
       IN  /\ SendCommit(c.st)
           /\ sret' = [sret EXCEPT ![i] = c.ret]
           /\ nsend' = i
           /\ step' = Step("send", i, flags, data, c.st.atts, c.ret, c.st.adds,
                           c.st.rems, c.st.dbl, c.st.ise)
    /\ UNCHANGED <<rfut, rargs, nrecv, rtries, rblocks, rregs, closed>>

\* the loop fires the writer registered for _sock_fd
SendReady(os) ==
    /\ writer
    /\ Len(wire) + Len(buffer) <= MaxWire
    /\ LET s == _send_ready(SendState, os)
       IN  /\ SendCommit(s)
           /\ step' = Step("send_ready", 0, 0, "", s.atts, "", s.adds, s.rems,
                           s.dbl, s.ise)
    /\ UNCHANGED <<sret, nsend, rfut, rargs, nrecv, rtries, rblocks, rregs, closed>>

\* the caller cancels a future that send returned
CancelSend(i) ==
    /\ sret[i] = "fut"
    /\ sfut[i] = "pending"
    /\ sfut' = [sfut EXCEPT ![i] = "cancelled"]
    /\ step' = Step("cancel_send", i, 0, "", <<>>, "", 0, 0, FALSE, FALSE)
    /\ UNCHANGED <<buffer, sret, nsend, writer, wire, recvVars, closed>>

\* ------------------------------------------------------------------- close
\* Socket defines no close: close() is zmq.Socket.close, which closes the
\* transport and touches neither _buffer, the futures nor the loop.
close ==
    /\ closed' = TRUE
    /\ step' = Step("close", 0, 0, "", <<>>, "", 0, 0, FALSE, FALSE)
    /\ UNCHANGED <<sendVars, recvVars>>

\* ----------------------------------------------------------- specification
Payloads == {"empty", "bytes"}

\* the receive direction: recv calls, the reader callback, cancellation
NextRecv ==
    \/ \E flags \in Flags : \E o1, o2 \in Outcomes(closed) : recv(flags, o1, o2)
    \/ \E o \in Outcomes(closed) : RecvReady(o)
    \/ \E i \in RecvIds : CancelRecv(i)
    \/ close

\* the send direction: send calls, the writer callback, cancellation
NextSend ==
    \/ \E data \in Payloads : \E flags \in Flags : \E o \in Outcomes(closed) :
          send(data, flags, o)
    \/ \E os \in [1 .. Len(buffer) -> Outcomes(closed)] : SendReady(os)
    \/ \E i \in SendIds : CancelSend(i)
    \/ close

\* both directions on one adapter
Next ==
    \/ nrecv + nsend < MaxCalls /\ \E flags \in Flags : \E o1, o2 \in Outcomes(closed) :
          recv(flags, o1, o2)
    \/ \E o \in Outcomes(closed) : RecvReady(o)
    \/ \E i \in RecvIds : CancelRecv(i)
    \/ nrecv + nsend < MaxCalls /\ \E data \in Payloads : \E flags \in Flags :
          \E o \in Outcomes(closed) : send(data, flags, o)
    \/ \E os \in [1 .. Len(buffer) -> Outcomes(closed)] : SendReady(os)
    \/ \E i \in SendIds : CancelSend(i)
    \/ close

Spec == Init /\ [][Next]_vars

\* behaviours of one direction alone
SpecRecv == Init /\ [][NextRecv]_vars

SpecSend == Init /\ [][NextSend]_vars

\* the writer fires and the transport does not answer the head entry with a
\* would-block
DrainProgress ==
    \E os \in [1 .. Len(buffer) -> Outcomes(closed)] :
        /\ buffer # <<>> => os[1] # "eagain"
        /\ SendReady(os)

\* the send direction with MaxLiveSend send calls
NextSendLive ==
    \/ nsend < MaxLiveSend /\ \E data \in Payloads : \E flags \in Flags :
          \E o \in Outcomes(closed) : send(data, flags, o)
    \/ \E os \in [1 .. Len(buffer) -> Outcomes(closed)] : SendReady(os)
    \/ \E i \in SendIds : CancelSend(i)
    \/ close

\* the send direction when the loop keeps firing an armed writer and the
\* transport does not would-block for ever
SpecSendFair == Init /\ [][NextSendLive]_vars /\ WF_vars(DrainProgress)

\* the receive direction with one logical reader: recv is called again only
\* when the future of every earlier recv is settled or cancelled
NextRecvSingle ==
    \/ /\ \A i \in RecvIds : rfut[i] # "pending"
       /\ \E flags \in Flags : \E o1, o2 \in Outcomes(closed) : recv(flags, o1, o2)
    \/ \E o \in Outcomes(closed) : RecvReady(o)
    \/ \E i \in RecvIds : CancelRecv(i)
    \/ close

SpecRecvSingle == Init /\ [][NextRecvSingle]_vars

\* the reader fires and the transport does not answer with a would-block
RecvProgress == \E o \in Outcomes(closed) : o # "eagain" /\ RecvReady(o)

\* one logical reader when the loop keeps firing an armed reader and the
\* transport does not would-block for ever
SpecRecvFair == Init /\ [][NextRecvSingle]_vars /\ WF_vars(RecvProgress)

\* the send direction when no caller cancels a future
NextSendKept ==
    \/ \E data \in Payloads : \E flags \in Flags : \E o \in Outcomes(closed) :
          send(data, flags, o)
    \/ \E os \in [1 .. Len(buffer) -> Outcomes(closed)] : SendReady(os)
    \/ close

SpecSendKept == Init /\ [][NextSendKept]_vars

\* ------------------------------------------------------------------ claims
\* the caller's flags ask for no-wait
NoWait(flags) == flags \in {f \in Flags : f % (2 * NOBLOCK) >= NOBLOCK}

\* the first underlying attempt of the last handler answered out
FirstOutcome(out) == step.atts # <<>> /\ step.atts[1].out = out

\* C1: underlying send attempts happen in submission order: no payload is
\* handed to the transport after a later-submitted payload was.
C1_SendOrder == \A a, b \in 1 .. Len(wire) : a < b => wire[a] <= wire[b]

\* three payloads reached the transport, the first one after a retry in a drain
C1_Witness ==
    /\ step.op = "send_ready"
    /\ Len(wire) >= 4
    /\ {wire[k] : k \in 1 .. Len(wire)} = {1, 2, 3}
    /\ wire[1] = 1 /\ wire[2] = 1

\* C2: one write-readiness firing attempts the queued entries from the head in
\* order, fulfils every entry whose send succeeds, and stops only at the first
\* would-block or error or when the queue is empty.
C2_DrainsAllSendable ==
    [][step'.op = "send_ready" =>
        LET n == Len(step'.atts)
        IN  /\ n <= Len(buffer)
            /\ \A k \in 1 .. n : step'.atts[k].id = buffer[k].data
            /\ \A k \in 1 .. n :
                  step'.atts[k].out = "ok" => sfut'[buffer[k].fut] = "result"
            /\ n = Len(buffer) \/ step'.atts[n].out # "ok"]_vars

\* the receive of call i succeeded: its caller got or will get the payload
Succeeded(i) ==
    \/ rfut[i] = "result"
    \/ step.op = "recv" /\ step.id = i /\ step.ret = "value" /\ ~NoWait(step.flags)

C4_FastPath ==
    step.op = "recv" /\ FirstOutcome("ok")
        => /\ step.ret = "value"
           /\ Len(step.atts) = 1
           /\ step.adds = 0
           /\ rfut[step.id] = "none"
           /\ reader # step.id

\* a recv without NOBLOCK succeeded at once
C4_Witness == step.op = "recv" /\ FirstOutcome("ok") /\ ~NoWait(step.flags)

\* C5: a cancelled receive future stays cancelled and no underlying receive is
\* attempted for it afterwards, whatever fires.
C5_CancelledStays ==
    [][\A i \in RecvIds :
          rfut[i] = "cancelled" => rfut'[i] = "cancelled" /\ rtries'[i] = rtries[i]]_vars

\* the reader fired for a receive that was cancelled while it was armed
C5_Witness ==
    /\ step.op = "recv_ready"
    /\ rfut[step.id] = "cancelled"
    /\ step.rems = 1
    /\ step.atts = <<>>

\* C6: a recv called with NOBLOCK makes one attempt and returns or raises at
\* once: no reader, no future, no suspension.
C6_NoWaitRecv ==
    step.op = "recv" /\ NoWait(step.flags)
        => /\ Len(step.atts) = 1
           /\ step.atts[1].flags = step.flags
           /\ step.ret = IF step.atts[1].out = "ok" THEN "value" ELSE "raise"
           /\ step.adds = 0
           /\ rfut[step.id] = "none"
           /\ rregs[step.id] = 0
           /\ reader # step.id

\* a recv called with NOBLOCK met a would-block
C6_Witness ==
    step.op = "recv" /\ NoWait(step.flags) /\ FirstOutcome("eagain") /\ step.ret = "raise"

\* C7: a send of a non-empty payload without NOBLOCK returns its future in
\* every outcome of the immediate attempt, failed when the attempt failed.
C7_SendReturnsHandle ==
    step.op = "send" /\ step.data = "bytes" /\ ~NoWait(step.flags)
        => /\ step.ret = "fut"
           /\ step.atts # <<>> /\ step.atts[1].out \in {"err", "exc"}
                 => sfut[step.id] = "exception"

\* C8: every underlying send attempt, at call time and in the drain, carries
\* NOBLOCK.
C8_SendsNeverBlock ==
    step.op \in {"send", "send_ready"}
        => \A k \in 1 .. Len(step.atts) : NoWait(step.atts[k].flags)

\* C9: every underlying receive attempt, the first one and every retry,
\* carries NOBLOCK.
C9_RecvsNeverBlock ==
    step.op \in {"recv", "recv_ready"}
        => \A k \in 1 .. Len(step.atts) : NoWait(step.atts[k].flags)

\* the reader retried a receive that was called without NOBLOCK
C9_Witness ==
    /\ step.op = "recv_ready"
    /\ step.atts # <<>>
    /\ rblocks[step.id] >= 2

\* C10: once the adapter is closed no future it produced is pending and the
\* pending-write queue is empty.
C10_CloseSettlesAll ==
    closed =>
        /\ buffer = <<>>
        /\ \A i \in SendIds : sret[i] = "fut" => sfut[i] # "pending"
        /\ \A i \in RecvIds : rfut[i] # "pending"

\* C11: once the adapter is closed neither a reader nor a writer for its
\* descriptor is left with the loop.
C11_CloseReleasesRegistrations == closed => reader = 0 /\ ~writer

\* C12: a queued send whose future was cancelled is never handed to the
\* transport: the drain removes or skips its entry.
C12_CancelledSendSkipped ==
    step.op = "send_ready"
        => \A k \in 1 .. Len(step.atts) : ~Cancelled(sfut, step.atts[k].id)

\* the last underlying attempt of the handler recorded in st answered one of outs
LastOutcomeIn(st, outs) == st.atts # <<>> /\ st.atts[Len(st.atts)].out \in outs

\* C13: when an entry fails in a drain with an error that is no would-block,
\* no other future is failed, the entries behind it stay queued in their order
\* with their futures untouched, and the writer stays armed for them.
C13_FailureIsolated ==
    [][step'.op = "send_ready" /\ LastOutcomeIn(step', {"err", "exc"}) =>
        LET n == Len(step'.atts)
        IN  /\ buffer' = SubSeq(buffer, n + 1, Len(buffer))
            /\ \A k \in n + 1 .. Len(buffer) :
                  sfut'[buffer[k].fut] = sfut[buffer[k].fut]
            /\ \A i \in SendIds :
                  sfut'[i] = "exception" /\ sfut[i] # "exception" => i = buffer[n].fut
            /\ sfut[buffer[n].fut] = "pending" => sfut'[buffer[n].fut] = "exception"
            /\ buffer' # <<>> => writer']_vars

\* a drain failed the head entry and left two pending entries queued
C13_Witness ==
    /\ step.op = "send_ready"
    /\ LastOutcomeIn(step, {"err"})
    /\ Len(buffer) = 2
    /\ \A k \in 1 .. Len(buffer) : sfut[buffer[k].fut] = "pending"
    /\ \E i \in SendIds : sfut[i] = "exception"
    /\ writer

\* in the handler recorded in st the last underlying attempt made for
\* operation i answered with an error that is no would-block
FailedBy(st, i) ==
    \E k \in 1 .. Len(st.atts) :
        /\ st.atts[k].id = i
        /\ st.atts[k].out \in {"err", "exc"}
        /\ \A j \in k + 1 .. Len(st.atts) : st.atts[j].id # i

\* C14: a would-block is never surfaced for calls made without NOBLOCK: a
\* future is failed only with the error of an attempt that was no would-block,
\* and recv or send raise only such an error.
C14_WouldBlockNotSurfaced ==
    [][/\ \A i \in SendIds :
              sfut[i] # "exception" /\ sfut'[i] = "exception"
                  => step'.op \in {"send", "send_ready"} /\ FailedBy(step', i)
       /\ \A i \in RecvIds :
              rfut[i] # "exception" /\ rfut'[i] = "exception"
                  => step'.op \in {"recv", "recv_ready"} /\ FailedBy(step', i)
       /\ step'.op \in {"send", "recv"} /\ ~NoWait(step'.flags) /\ step'.ret = "raise"
              => FailedBy(step', step'.id)]_vars

\* a receive and a queued send were both retried after would-blocks and then
\* failed with a transport error
C14_Witness ==
    /\ \E i \in RecvIds : rfut[i] = "exception" /\ rblocks[i] >= 2
    /\ \E i \in SendIds :
          /\ sfut[i] = "exception"
          /\ Cardinality({k \in 1 .. Len(wire) : wire[k] = i}) >= 3

\* C15: the adapter never calls set_result or set_exception on a future that
\* is already fulfilled, failed or cancelled.
C15_SettlesOnce == ~step.ise

\* C16: the adapter never calls add_writer while a writer is already
\* registered for the descriptor.
C16_SingleWriterRegistration == step.op \in {"send", "send_ready"} => ~step.dbl

\* C17: between callbacks the writer is armed only while the pending-write
\* queue is non-empty.
C17_WriterOnlyWhileQueued == writer => buffer # <<>>

\* C18: a send of an empty payload does nothing and does not fail: no
\* underlying call, nothing enqueued, no registration made or removed, no
\* future created, and the call returns instead of raising.
C18_EmptySendNoOp ==
    [][step'.op = "send" /\ step'.data = "empty" =>
        /\ step'.atts = <<>>
        /\ step'.adds = 0 /\ step'.rems = 0
        /\ step'.ret = "None"
        /\ buffer' = buffer
        /\ writer' = writer
        /\ wire' = wire
        /\ sfut' = sfut]_vars

\* an empty payload was sent while entries were queued
C18_Witness ==
    /\ step.op = "send" /\ step.data = "empty"
    /\ Len(buffer) = 2
    /\ writer

\* C20: when the attempt on the head entry would-blocks in a drain, the entry
\* goes back to the head: the queue after the firing is the queue before that
\* attempt, the entries before it were sent, its future is untouched, the
\* drain stops and the writer stays armed.
C20_WouldBlockRequeuesAtHead ==
    [][step'.op = "send_ready" /\ LastOutcomeIn(step', {"eagain"}) =>
        LET n == Len(step'.atts)
        IN  /\ n <= Len(buffer)
            /\ buffer' = SubSeq(buffer, n, Len(buffer))
            /\ \A k \in 1 .. n - 1 : step'.atts[k].out = "ok"
            /\ step'.atts[n].id = buffer[n].data
            /\ sfut'[buffer[n].fut] = sfut[buffer[n].fut]
            /\ step'.rems = 0
            /\ writer']_vars

\* three sends were queued and one firing sent two of them: both are
\* fulfilled, the third is still queued and pending, the writer is armed
C20_Witness ==
    /\ step.op = "send_ready"
    /\ [k \in 1 .. Len(step.atts) |-> step.atts[k].out] = <<"ok", "ok", "eagain">>
    /\ sfut = [i \in SendIds |-> IF i = 3 THEN "pending" ELSE "result"]
    /\ Len(buffer) = 1 /\ buffer[1].fut = 3
    /\ writer

\* the budget of underlying send attempts of a behaviour is used up
WireUsedUp == Len(wire) + Len(buffer) > MaxWire

\* C19: when the loop keeps firing the armed writer and the transport does
\* not would-block for ever, every future returned by send reaches a terminal
\* state (within the budget of attempts), and no entry is ever queued without
\* an armed writer.
C19_SendsSettle ==
    /\ \A i \in SendIds :
          (sret[i] = "fut" /\ sfut[i] = "pending") ~> (sfut[i] # "pending" \/ WireUsedUp)
    /\ [](buffer # <<>> => writer)

\* the queued sends were all fulfilled by drains, after a would-block in a
\* drain, and the writer is gone
C19_Witness ==
    /\ step.op = "send_ready"
    /\ \A i \in 1 .. MaxLiveSend : sret[i] = "fut" /\ sfut[i] = "result"
    /\ Len(wire) > MaxLiveSend + 1
    /\ buffer = <<>>
    /\ ~writer
    /\ ~WireUsedUp

\* C21: a firing that empties the pending-write queue with every attempt
\* succeeding removes the writer in that same firing.
C21_EmptiedQueueRemovesWriter ==
    [][/\ step'.op = "send_ready"
       /\ \A k \in 1 .. Len(step'.atts) : step'.atts[k].out = "ok"
       /\ buffer' = <<>>
       => ~writer' /\ step'.rems = 1]_vars

\* C22: a firing of the reader for a pending receive removes the reader and
\* makes exactly one underlying attempt for that receive; when the attempt
\* succeeds the future is fulfilled and no reader is left.
C22_ReadyRetriesOnce ==
    [][step'.op = "recv_ready" /\ rfut[reader] = "pending" =>
        /\ step'.id = reader
        /\ step'.rems = 1
        /\ Len(step'.atts) = 1
        /\ step'.atts[1].id = reader
        /\ rtries'[reader] = rtries[reader] + 1
        /\ step'.atts[1].out = "ok" =>
              /\ rfut'[reader] = "result"
              /\ reader' = 0
              /\ step'.adds = 0]_vars

\* the reader fired after a would-block in the callback and the retry succeeded
C22_Witness ==
    /\ step.op = "recv_ready"
    /\ LastOutcomeIn(step, {"ok"})
    /\ rfut[step.id] = "result"
    /\ rregs[step.id] = 2
    /\ reader = 0

\* C23: when the retry made by a firing of the reader would-blocks again, the
\* future stays pending and exactly one reader is registered again for the
\* same receive, with the same arguments, so that the next firing retries.
C23_SpuriousReadiness ==
    [][step'.op = "recv_ready" /\ LastOutcomeIn(step', {"eagain"}) =>
        /\ step'.id = reader
        /\ rfut'[reader] = "pending"
        /\ reader' = reader
        /\ step'.rems = 1 /\ step'.adds = 1 /\ ~step'.dbl
        /\ rargs'[reader] = rargs[reader]
        /\ rregs'[reader] = rregs[reader] + 1]_vars

\* two firings in a row were spurious and the receive is armed again
C23_Witness ==
    /\ step.op = "recv_ready"
    /\ LastOutcomeIn(step, {"eagain"})
    /\ rblocks[step.id] = 4
    /\ rregs[step.id] = 3
    /\ reader = step.id
    /\ rfut[step.id] = "pending"

\* the sends whose entries are in queue q
Queued(q) == {q[k].fut : k \in 1 .. Len(q)}

\* handler st made its last attempt inside _recv, on behalf of a future
ViaRecvCallback(st) ==
    \/ st.op = "recv_ready"
    \/ st.op = "recv" /\ Len(st.atts) = 2

C25_SendFastPath ==
    [][step'.op = "send" /\ step'.data = "bytes" /\ buffer = <<>> =>
        /\ Len(step'.atts) = 1
        /\ step'.atts[1].out = "ok" =>
              /\ step'.ret = "fut"
              /\ sfut'[step'.id] = "result"
              /\ wire' = Append(wire, step'.id)
              /\ buffer' = <<>>
              /\ step'.adds = 0 /\ writer' = writer
        /\ step'.atts[1].out = "eagain" /\ ~NoWait(step'.flags) =>
              /\ step'.ret = "fut"
              /\ sfut'[step'.id] = "pending"
              /\ Len(buffer') = 1 /\ buffer'[1].fut = step'.id
              /\ step'.adds = 1 /\ writer']_vars

\* both cases happened: the first send went through at once, the second one
\* would-blocked and is queued
C25_Witness ==
    /\ step.op = "send" /\ step.id = 2
    /\ sfut[1] = "result" /\ sret[1] = "fut" /\ wire = <<1, 2>>
    /\ FirstOutcome("eagain") /\ ~NoWait(step.flags)
    /\ Len(buffer) = 1 /\ buffer[1].fut = 2
    /\ writer /\ sfut[2] = "pending"

\* C26: a send with NOBLOCK that finds the queue empty makes exactly one
\* underlying attempt, with the caller's flags; a would-block of that attempt
\* is raised to the caller, nothing is queued, no writer is registered and
\* the caller holds no future.
C26_NoWaitSend ==
    [][/\ step'.op = "send" /\ step'.data = "bytes"
       /\ NoWait(step'.flags) /\ buffer = <<>>
       => /\ Len(step'.atts) = 1
          /\ step'.atts[1].flags = step'.flags
          /\ step'.atts[1].out = "eagain" =>
                /\ step'.ret = "raise" /\ sret'[step'.id] = "raise"
                /\ buffer' = <<>>
                /\ step'.adds = 0 /\ writer' = writer]_vars

\* a send with NOBLOCK met a would-block on an idle socket
C26_Witness ==
    /\ step.op = "send" /\ step.data = "bytes" /\ NoWait(step.flags)
    /\ FirstOutcome("eagain")
    /\ step.ret = "raise"
    /\ buffer = <<>> /\ ~writer

\* C27: a send of a payload called while the queue is not empty makes no
\* underlying attempt, whatever its flags: its entry is appended behind the
\* queued ones, which stay as they are, the writer registration is not
\* touched, and the returned future is pending.
C27_SendBehindQueue ==
    [][step'.op = "send" /\ step'.data = "bytes" /\ buffer # <<>> =>
        /\ step'.atts = <<>>
        /\ wire' = wire
        /\ Len(buffer') = Len(buffer) + 1
        /\ SubSeq(buffer', 1, Len(buffer)) = buffer
        /\ buffer'[Len(buffer')].fut = step'.id
        /\ step'.adds = 0 /\ step'.rems = 0 /\ writer' = writer
        /\ step'.ret = "fut"
        /\ sfut'[step'.id] = "pending"
        /\ \A i \in SendIds : i # step'.id => sfut'[i] = sfut[i]]_vars

\* a send with NOBLOCK was queued behind two entries
C27_Witness ==
    /\ step.op = "send" /\ step.data = "bytes" /\ NoWait(step.flags)
    /\ step.atts = <<>>
    /\ Len(buffer) = 3 /\ buffer[3].fut = step.id
    /\ sfut[step.id] = "pending"

\* C28: with one logical reader, where recv is called again only after the
\* future of the previous recv was settled or cancelled, no handler registers
\* a reader while a reader is registered for the descriptor.
C28_NoDoubleRegistration ==
    step.op \in {"recv", "recv_ready"} => ~step.dbl

\* C29 as stated: a registered reader is the reader of a receive whose future
\* is pending, so there are never more readers than pending futures and none
\* for a future that has a result, an exception or was cancelled.
C29_AsStated ==
    reader # 0 => rfut[reader] = "pending"

\* C29: a registered reader is the reader of a receive whose future is
\* pending, or was cancelled and has not fired since; none stays registered
\* for a future that has a result or an exception.
C29_ReaderHasReceive ==
    reader # 0 => rfut[reader] \in {"pending", "cancelled"}

\* the reader of a cancelled receive is still registered after another
\* receive was settled in its callback
C29_Witness ==
    /\ reader # 0
    /\ rfut[reader] = "cancelled"
    /\ \E i \in RecvIds : i # reader /\ rfut[i] \in {"result", "exception"} /\ rregs[i] >= 1

\* C30: with one logical reader, a loop that keeps firing the registered
\* reader and a transport that does not would-block for ever, the future of
\* a deferred receive ends with a result, an exception or cancelled; and as
\* long as it is pending the reader registered between handlers is its own.
C30_RecvSettles ==
    /\ \A i \in RecvIds : (rfut[i] = "pending") ~> (rfut[i] # "pending")
    /\ [](\A i \in RecvIds : rfut[i] = "pending" => reader = i)

\* the second receive was deferred after the first one was cancelled, met a
\* spurious firing and was settled by the next one
C30_Witness ==
    /\ step.op = "recv_ready" /\ step.id = 2
    /\ rfut[1] = "cancelled"
    /\ rfut[2] = "result"
    /\ rregs[2] = 2

\* C31: between handlers, a queue that is not empty has the writer registered,
\* whatever sends, drains, transport errors and cancellations came before.
C31_QueuedHasWriter ==
    buffer # <<>> => writer

\* a drain left on a transport error with entries behind the failed one, one
\* of them cancelled by its caller
C31_Witness ==
    /\ step.op = "send_ready" /\ LastOutcomeIn(step, {"err", "exc"})
    /\ buffer # <<>>
    /\ sfut[buffer[1].fut] = "cancelled"
    /\ writer

\* C32: when no caller cancels, between handlers a future returned by send is
\* pending exactly when its entry is queued; an entry is in the queue at most
\* once, is queued only by a send that was not completed at once, and leaves
\* the queue exactly when its future gets a result or an exception.
C32_PendingIffQueued ==
    /\ [](/\ \A i \in SendIds :
                sret[i] = "fut" => (sfut[i] = "pending" <=> i \in Queued(buffer))
          /\ \A j, k \in 1 .. Len(buffer) : buffer[j].fut = buffer[k].fut => j = k)
    /\ [][\A i \in SendIds :
            /\ i \notin Queued(buffer) /\ i \in Queued(buffer') =>
                  /\ step'.op = "send" /\ step'.id = i /\ step'.ret = "fut"
                  /\ buffer # <<>> \/ LastOutcomeIn(step', {"eagain"})
            /\ i \in Queued(buffer) =>
                  (i \notin Queued(buffer') <=> sfut'[i] \in {"result", "exception"})]_vars

\* one queued send was fulfilled and the next one failed in a drain while a
\* third one stays queued and pending
C32_Witness ==
    /\ step.op = "send_ready"
    /\ sfut[1] = "result" /\ sfut[2] = "exception" /\ sfut[3] = "pending"
    /\ sret[1] = "fut" /\ sret[2] = "fut"
    /\ Len(step.atts) = 2
    /\ Queued(buffer) = {3}

\* C33: the two directions do not touch each other: recv and the reader
\* callback leave the queue, the futures of the sends and the writer as they
\* are; send and the drain leave the reader and the futures of the receives
\* as they are.
C33_DirectionsIndependent ==
    [][/\ step'.op \in {"recv", "recv_ready"} =>
              /\ buffer' = buffer
              /\ sfut' = sfut
              /\ writer' = writer
       /\ step'.op \in {"send", "send_ready"} =>
              /\ reader' = reader
              /\ rfut' = rfut]_vars

\* a drain emptied the queue and removed the writer while the reader of a
\* pending receive is registered
C33_Witness ==
    /\ step.op = "send_ready" /\ step.rems = 1
    /\ buffer = <<>> /\ ~writer
    /\ reader # 0 /\ rfut[reader] = "pending"

====
